---------------------------- MODULE Spec2Model ----------------------------
(***************************************************************************)
(* The tooltip interaction state machine of src/scripts/tooltips.js        *)
(* (class TooltipManager, initTooltips, destroyTooltips) with the helpers  *)
(* of src/scripts/main.js it uses (projectData, utils).                    *)
(*                                                                         *)
(* One action per event handler or scheduled callback.  The browser's      *)
(* event loop is single threaded, so every handler is one atomic step.     *)
(* Time is abstracted: an outstanding timer may elapse at any later step,  *)
(* restricted only by the order the two fixed delays (300 ms show, 150 ms  *)
(* hide) force on timers of the queue; an animation-frame callback may run *)
(* at any later step.                                                      *)
(***************************************************************************)
EXTENDS Integers, Sequences, FiniteSets, TLC

(* ------------------------------ bounds -------------------------------- *)

\* number of .project-hotspot elements of the page; hotspot h carries
\* data-project = h
NumHotspots == 3

\* number of entries of the project registry; the hotspots above it have
\* no registered project
NumProjects == 2

\* most timers outstanding at once (set by setTimeout, not yet run/cleared)
MaxTimers == 2

\* most animation-frame callbacks pending at once
MaxFrames == 1

Hotspots == 1 .. NumHotspots

\* the JavaScript null / undefined of activeHotspot and of a timer handle
None == 0

VARIABLES
    tooltip,        \* this.tooltip is an element (TRUE) or null (FALSE)
    hotspots,       \* this.hotspots: the .project-hotspot elements init() found
    manager,        \* the global tooltipManager is set (initTooltips ran, destroyTooltips not)
    listeners,      \* the registered listeners: records [target, type, fn]
    activeHotspot,  \* this.activeHotspot: a hotspot or None
    active,         \* hotspot.classList.contains('active'), per hotspot
    className,      \* tooltip.className: [visible, position]
    style,          \* tooltip.style: [left, top, bottom, transform]
    content,        \* the text of the tooltip's title / description / tech / links
    timers,         \* the outstanding setTimeout callbacks in scheduling order, with
                    \* what this.showTimeout and this.hideTimeout hold
    frames,         \* pending requestAnimationFrame callbacks of showTooltip
    env,            \* [touch, width, height]: utils.isTouchDevice() and
                    \* utils.getViewportSize()
    last,           \* the step taken last: [op, h, prev, wasVisible]; under SpecPlace
                    \* the placement computed last with its inputs: [op, hr, tr, ev]
    hiddenByUser,   \* an explicit hide happened and no enter/click/touch since
    reentered,      \* the hotspot of the visible tooltip that the pointer left and
                    \* re-entered with nothing in between, no user event since
    page,           \* the document: [loaded, reducedMotion, supports3d, scene]
    parallax,       \* the ParallaxController and the global that names it
    server          \* the CMS backend: sessions, admins, projects table, uploads,
                    \* data/projects.json and the requests in flight

vars == << tooltip, hotspots, manager, listeners, activeHotspot, active, className, style,
           content, timers, frames, env, last, hiddenByUser, reentered,
           page, parallax, server >>

(* --------------------------- main.js ----------------------------------- *)

\* window.projectData: the registry, project id -> ProjectInfo
projectData(p) ==
    [ title       |-> << "title", p >>,
      description |-> << "description", p >>,
      tech        |-> << << "tech", p, "a" >>, << "tech", p, "b" >> >>,
      liveUrl     |-> << "live", p >>,
      githubUrl   |-> << "github", p >> ]

\* projectData[p] is defined (the registry has the key p)
hasProject(p) == p \in 1 .. NumProjects

\* the mobile test without the viewport's width
isMobileTouchOnly(e) == e.touch

\* utils.isTouchDevice() || viewport.width < 768, the mobile test of positionTooltip
isMobile(e) == e.touch \/ e.width < 768

(* --------------------------- the page ---------------------------------- *)

\* hotspot.dataset.project
datasetProject(h) == h

\* hotspot.getBoundingClientRect(): hotspots laid out left to right, the
\* first one close to the top left corner
hotspotRect(h) ==
    [ left |-> 300 * (h - 1), top |-> 10 + 200 * (h - 1), width |-> 40, height |-> 40 ]

\* the pointer positions of a mousemove over a hotspot with rectangle r: its
\* top left corner and its centre
pointerIn(r) ==
    { [ clientX |-> r.left, clientY |-> r.top ],
      [ clientX |-> r.left + r.width \div 2, clientY |-> r.top + r.height \div 2 ] }

pointerOver(h) == pointerIn(hotspotRect(h))

\* tooltip.getBoundingClientRect()
tooltipRect == [ width |-> 200, height |-> 100 ]

\* the text the page's markup gives the tooltip before any project is shown
BlankContent ==
    [ title |-> << "title", None >>, description |-> << "description", None >>,
      tech |-> << >>, liveUrl |-> << "live", None >>, githubUrl |-> << "github", None >> ]

\* the inline style of the tooltip before any placement
BlankStyle ==
    [ left |-> << "auto", 0 >>, top |-> << "auto", 0 >>,
      bottom |-> << "auto", 0 >>, transform |-> "none" ]

(* ------------------------- timers (setTimeout) ------------------------- *)

\* An outstanding timer is [kind, hotspot, held]: kind names its callback
\* ("show": showTooltip(hotspot), "hide": hideTooltip()), hotspot is the
\* hotspot the show callback has captured, and held says that the manager's
\* field of that kind (this.showTimeout / this.hideTimeout) holds its handle.
\* A field that holds no outstanding timer's handle (undefined, null, or the
\* handle of a timer that has run or was cleared) has no held timer.

\* this.<kind>Timeout = setTimeout(callback, delay): the new timer is queued
\* and the field now holds its handle and no other
setTimeout(ts, kind, h) ==
    Append([ i \in 1 .. Len(ts) |->
               IF ts[i].kind = kind THEN [ ts[i] EXCEPT !.held = FALSE ] ELSE ts[i] ],
           [ kind |-> kind, hotspot |-> h, held |-> TRUE ])

\* clearTimeout(this.<kind>Timeout): nothing happens when the field holds no
\* outstanding timer's handle
clearTimeout(ts, kind) == SelectSeq(ts, LAMBDA t : ~(t.kind = kind /\ t.held))

\* the queue without its i-th timer, which has just elapsed
elapsed(ts, i) == [ j \in 1 .. (Len(ts) - 1) |-> IF j < i THEN ts[j] ELSE ts[j + 1] ]

\* this.showDelay and this.hideDelay, in milliseconds
showDelay == 300
hideDelay == 150

delayOf(kind) == IF kind = "show" THEN showDelay ELSE hideDelay

\* The timer at index i may elapse now.  Timers are kept in scheduling order:
\* a timer elapses after every timer scheduled before it with a delay no
\* longer than its own (a show timer after everything before it, a hide
\* timer after the hide timers before it).
mayElapse(ts, i) ==
    \A j \in 1 .. (i - 1) : delayOf(ts[j].kind) > delayOf(ts[i].kind)

\* the outstanding timers of a kind
outstanding(ts, kind) == { i \in 1 .. Len(ts) : ts[i].kind = kind }

(* --------------------------- listeners --------------------------------- *)

HotspotEvents == { "mouseenter", "mouseleave", "mousemove", "touchstart", "click" }

\* the listeners bindEvents registers, hs being this.hotspots: five on each
\* hotspot (none without hotspots), then one on the document and two on the
\* window; every callback is an arrow function (or the debounced wrapper)
\* created at registration
bindEvents(hs) ==
    { [ target |-> "hotspot", type |-> t, fn |-> "closure" ] :
        t \in IF hs = { } THEN { } ELSE HotspotEvents }
    \cup { [ target |-> "document", type |-> "click", fn |-> "closure" ],
           [ target |-> "window", type |-> "scroll", fn |-> "closure" ],
           [ target |-> "window", type |-> "resize", fn |-> "debounced" ] }

\* removeEventListener(type, fn): removes the listener registered with the
\* same callback object, if there is one
removeEventListener(ls, target, type, fn) ==
    ls \ { [ target |-> target, type |-> type, fn |-> fn ] }

\* the listeners left by destroy(), which passes the methods of the class
unbindAll(ls) ==
    LET hs == { [ target |-> "hotspot", type |-> t, fn |-> "method" ] : t \in HotspotEvents }
    IN  removeEventListener(
          removeEventListener(
            removeEventListener(ls \ hs, "document", "click", "method"),
            "window", "scroll", "method"),
          "window", "resize", "method")

\* init() without the return for a missing tooltip element
initAlwaysBinds(t, hs) == bindEvents(hs)

\* the listeners init() leaves, t saying that the tooltip element was found
\* and hs being the hotspots found: it returns before bindEvents() only when
\* the tooltip element is missing
init(t, hs) == IF t THEN bindEvents(hs) ELSE { }

listening(target, type) == \E l \in listeners : l.target = target /\ l.type = type

(* ------------------- TooltipManager: pure helpers ---------------------- *)

spacing == 15

Px(n) == << "px", n >>

\* positionTooltip without the flip below a hotspot that leaves no room above
positionTooltipNoFlip(st, e, tr, hr) ==
    IF isMobile(e)
    THEN [ style     |-> [ left |-> << "pct", 50 >>, top |-> << "auto", 0 >>,
                           bottom |-> Px(20), transform |-> "translateX(-50%)" ],
           className |-> [ visible |-> TRUE, position |-> "bottom" ] ]
    ELSE LET left0 == hr.left + hr.width \div 2
             top0  == hr.top - tr.height - spacing
             mid   == hr.top + hr.height \div 2 - tr.height \div 2
             a == [ left |-> left0, top |-> top0, position |-> "top" ]
             b == IF a.left + tr.width \div 2 > e.width - spacing
                  THEN [ left |-> hr.left + hr.width + spacing, top |-> mid, position |-> "left" ]
                  ELSE a
             c == IF b.left - tr.width \div 2 < spacing
                  THEN [ left |-> hr.left - spacing, top |-> mid, position |-> "right" ]
                  ELSE b
         IN  [ style     |-> [ st EXCEPT !.left = Px(c.left), !.top = Px(c.top),
                                         !.transform = IF c.position \in { "top", "bottom" }
                                                       THEN "translateX(-50%)"
                                                       ELSE "translateY(-50%)" ],
               className |-> [ visible |-> TRUE, position |-> c.position ] ]

\* positionTooltip with the left-edge test made on the centred tooltip instead
\* of on the place the right-edge test has left
positionTooltipCentredTests(st, e, tr, hr) ==
    IF isMobile(e)
    THEN [ style     |-> [ left |-> << "pct", 50 >>, top |-> << "auto", 0 >>,
                           bottom |-> Px(20), transform |-> "translateX(-50%)" ],
           className |-> [ visible |-> TRUE, position |-> "bottom" ] ]
    ELSE LET left0 == hr.left + hr.width \div 2
             top0  == hr.top - tr.height - spacing
             mid   == hr.top + hr.height \div 2 - tr.height \div 2
             a == IF top0 < spacing
                  THEN [ left |-> left0, top |-> hr.top + hr.height + spacing, position |-> "bottom" ]
                  ELSE [ left |-> left0, top |-> top0, position |-> "top" ]
             b == IF a.left + tr.width \div 2 > e.width - spacing
                  THEN [ left |-> hr.left + hr.width + spacing, top |-> mid, position |-> "left" ]
                  ELSE a
             c == IF left0 - tr.width \div 2 < spacing
                  THEN [ left |-> hr.left - spacing, top |-> mid, position |-> "right" ]
                  ELSE b
         IN  [ style     |-> [ st EXCEPT !.left = Px(c.left), !.top = Px(c.top),
                                         !.transform = IF c.position \in { "top", "bottom" }
                                                       THEN "translateX(-50%)"
                                                       ELSE "translateY(-50%)" ],
               className |-> [ visible |-> TRUE, position |-> c.position ] ]

\* positionTooltip(hotspot, event): the style and className the tooltip gets.
\* st is the style before the call (the desktop branch leaves bottom alone),
\* e the environment, tr and hr the rectangles of tooltip and hotspot.
positionTooltip(st, e, tr, hr) ==
    IF isMobile(e)
    THEN [ style     |-> [ left |-> << "pct", 50 >>, top |-> << "auto", 0 >>,
                           bottom |-> Px(20), transform |-> "translateX(-50%)" ],
           className |-> [ visible |-> TRUE, position |-> "bottom" ] ]
    ELSE LET left0 == hr.left + hr.width \div 2
             top0  == hr.top - tr.height - spacing
             mid   == hr.top + hr.height \div 2 - tr.height \div 2
             a == IF top0 < spacing
                  THEN [ left |-> left0, top |-> hr.top + hr.height + spacing, position |-> "bottom" ]
                  ELSE [ left |-> left0, top |-> top0, position |-> "top" ]
             b == IF a.left + tr.width \div 2 > e.width - spacing
                  THEN [ left |-> hr.left + hr.width + spacing, top |-> mid, position |-> "left" ]
                  ELSE a
             c == IF b.left - tr.width \div 2 < spacing
                  THEN [ left |-> hr.left - spacing, top |-> mid, position |-> "right" ]
                  ELSE b
         IN  [ style     |-> [ st EXCEPT !.left = Px(c.left), !.top = Px(c.top),
                                         !.transform = IF c.position \in { "top", "bottom" }
                                                       THEN "translateX(-50%)"
                                                       ELSE "translateY(-50%)" ],
               className |-> [ visible |-> TRUE, position |-> c.position ] ]

\* updateTooltipPosition(event) on a desktop, past its first test: the style
\* that follows the pointer at ev = [clientX, clientY]
followPointer(st, e, tr, ev) ==
    LET left0 == ev.clientX
        top0  == ev.clientY - tr.height - spacing
        left1 == IF left0 + tr.width > e.width - spacing
                 THEN e.width - tr.width - spacing ELSE left0
        left2 == IF left1 < spacing THEN spacing ELSE left1
        top1  == IF top0 < spacing THEN ev.clientY + spacing ELSE top0
    IN  [ st EXCEPT !.left = Px(left2), !.top = Px(top1), !.transform = "none" ]

\* populateTooltip(projectInfo): the text written into the tooltip's elements
populateTooltip(projectInfo) ==
    [ title       |-> projectInfo.title,
      description |-> projectInfo.description,
      tech        |-> projectInfo.tech,
      liveUrl     |-> projectInfo.liveUrl,
      githubUrl   |-> projectInfo.githubUrl ]

(* ------------------- TooltipManager: show and hide --------------------- *)

\* showTooltip with the class name written by positionTooltip lacking
\* 'visible', so that only the animation-frame callback makes the tooltip
\* visible
showTooltipDeferred(h) ==
    IF ~hasProject(datasetProject(h))
    THEN UNCHANGED << activeHotspot, content, style, className, frames, active >>
    ELSE LET placed == positionTooltip(style, env, tooltipRect, hotspotRect(h))
         IN  /\ activeHotspot' = h
             /\ content' = populateTooltip(projectData(datasetProject(h)))
             /\ style' = placed.style
             /\ className' = [ placed.className EXCEPT !.visible = className.visible ]
             /\ frames' = frames + 1
             /\ active' = [ active EXCEPT ![h] = TRUE ]

\* showTooltip without the test for a missing registry entry
showTooltipUnchecked(h) ==
    LET placed == positionTooltip(style, env, tooltipRect, hotspotRect(h))
    IN  /\ activeHotspot' = h
        /\ content' = populateTooltip(projectData(datasetProject(h)))
        /\ style' = placed.style
        /\ className' = placed.className
        /\ frames' = frames + 1
        /\ active' = [ active EXCEPT ![h] = TRUE ]

\* showTooltip(hotspot, event), on everything but the timers
showTooltip(h) ==
    IF ~hasProject(datasetProject(h))
    THEN UNCHANGED << activeHotspot, content, style, className, frames, active >>
    ELSE LET placed == positionTooltip(style, env, tooltipRect, hotspotRect(h))
         IN  /\ activeHotspot' = h
             /\ content' = populateTooltip(projectData(datasetProject(h)))
             /\ style' = placed.style
             /\ className' = placed.className
             /\ frames' = frames + 1
             /\ active' = [ active EXCEPT ![h] = TRUE ]

\* a show for h would schedule one more animation-frame callback than the
\* model keeps
roomForShow(h) == hasProject(datasetProject(h)) => frames < MaxFrames

\* hideTooltip without the block that clears the active hotspot
hideTooltipKeepsHotspot(ts) ==
    IF ~tooltip
    THEN /\ timers' = ts
         /\ UNCHANGED << className, active, activeHotspot >>
    ELSE /\ className' = [ className EXCEPT !.visible = FALSE ]
         /\ UNCHANGED << active, activeHotspot >>
         /\ timers' = clearTimeout(clearTimeout(ts, "show"), "hide")

\* hideTooltip(), ts being the timer queue it finds
hideTooltip(ts) ==
    IF ~tooltip
    THEN /\ timers' = ts
         /\ UNCHANGED << className, active, activeHotspot >>
    ELSE /\ className' = [ className EXCEPT !.visible = FALSE ]
         /\ active' = IF activeHotspot # None
                      THEN [ active EXCEPT ![activeHotspot] = FALSE ]
                      ELSE active
         /\ activeHotspot' = None
         /\ timers' = clearTimeout(clearTimeout(ts, "show"), "hide")

\* the record of the step being taken
step(op, h) ==
    [ op |-> op, h |-> h, prev |-> activeHotspot, wasVisible |-> className.visible ]

(* --------------------------- the CMS backend --------------------------- *)

\* browser sessions (cookies) that talk to the backend
NumSessions == 2

\* most rows the projects table ever gets (AUTOINCREMENT never reuses an id)
MaxId == 2

\* most mutating project requests in flight at once
MaxInFlight == 2

Sessions == 1 .. NumSessions
Slots == 1 .. MaxInFlight

\* the default admin's password, another password of at least 6 characters,
\* one that is too short, and the value of a missing body field
Passwords == { "admin123", "turfmapp" }
ShortPassword == "abc"
Missing == ""

\* the username of the default admin, and one that is not in the admins table
Admin == "admin"
Stranger == "guest"

\* a file in uploads/images
Files == { "a.png" }

\* bcrypt.hash(password, 10) and bcrypt.compare(password, hash)
bcryptHash(pw) == [ bcrypt |-> pw ]
bcryptCompare(pw, h) == h = bcryptHash(pw)

\* JSON.stringify(value) and JSON.parse(text)
JSONstringify(v) == [ json |-> v ]
JSONparse(t) == t.json

\* id.toString()
toString(n) == [ digits |-> n ]

\* a request body's coordinates: given or not, and x, y, w, h in units of the
\* map's width and height; coordinates || {} of a body without coordinates
NoCoords == [ given |-> FALSE, x |-> 0, y |-> 0, w |-> 0, h |-> 0 ]

\* req.session.admin of a session that is not logged in
NoAdmin == [ id |-> None, username |-> Missing ]

\* a slot that no request in flight takes
Idle ==
    [ stage |-> "idle", op |-> "", ids |-> { }, id |-> None,
      projects |-> << >>, coordinates |-> NoCoords, snapshot |-> { } ]

\* the backend after initializeDatabase(): the default admin with the default
\* password, no project, no upload, no session, an empty projects.json
freshServer ==
    [ sessions |-> [ s \in Sessions |-> NoAdmin ],
      admins   |-> [ a \in { Admin } |-> bcryptHash("admin123") ],
      db       |-> { },
      nextId   |-> 1,
      files    |-> { },
      json     |-> { },
      inflight |-> [ k \in Slots |-> Idle ] ]

(* ------------------------------ Init ----------------------------------- *)

\* the devices the page runs on: a desktop, a touch-capable phone, and a
\* narrow window (below the 768 px of positionTooltip) without touch
desktopEnv == [ touch |-> FALSE, width |-> 1024, height |-> 768 ]
touchEnv == [ touch |-> TRUE, width |-> 500, height |-> 800 ]
narrowEnv == [ touch |-> FALSE, width |-> 500, height |-> 800 ]

\* the page after DOMContentLoaded, as the tooltip's handlers see it: motion
\* allowed, 3D transforms supported, the parallax scene present
loadedPage == [ loaded |-> TRUE, reducedMotion |-> FALSE, supports3d |-> TRUE, scene |-> TRUE ]

\* the fields of a ParallaxController as its constructor sets them, and the
\* global parallaxController at null: no listener, no animation frame
NoParallax ==
    [ controller |-> FALSE, destroyed |-> FALSE, listeners |-> { },
      isActive |-> FALSE, isDragging |-> FALSE, animationId |-> FALSE,
      loops |-> 0, mouseX |-> 0, currentX |-> 0 ]

\* The page's markup and the fields the TooltipManager's constructor sets, on
\* one of the devices es.  The page has the tooltip element or not, and all
\* its hotspots or none.
blank(es) ==
    /\ tooltip \in BOOLEAN
    /\ hotspots \in { Hotspots, { } }
    /\ activeHotspot = None
    /\ active = [ h \in hotspots |-> FALSE ]
    /\ className = [ visible |-> FALSE, position |-> "" ]
    /\ style = BlankStyle
    /\ content = BlankContent
    /\ timers = << >>
    /\ frames = 0
    /\ env \in es
    /\ hiddenByUser = FALSE
    /\ reentered = None

\* The state once initTooltips() has run on a loaded page, on one of the
\* devices es: the constructor and init() have run.  The tooltip's handlers
\* share no state with the parallax controller, which is left out here.
start(es) ==
    /\ blank(es)
    /\ manager = TRUE
    /\ listeners = init(tooltip, hotspots)
    /\ page = loadedPage
    /\ parallax = NoParallax
    /\ server = freshServer

\* no step taken yet
started == [ op |-> "init", h |-> None, prev |-> None, wasVisible |-> FALSE ]

Init == start({ desktopEnv, touchEnv }) /\ last = started

(* ------------------------- event handlers ------------------------------ *)

\* handleMouseEnter(event, hotspot)
MouseEnter(h) ==
    /\ listening("hotspot", "mouseenter")
    /\ LET cleared == clearTimeout(timers, "hide")
       IN  /\ Len(cleared) < MaxTimers
           /\ timers' = setTimeout(cleared, "show", h)
    /\ last' = step("mouseenter", h)
    /\ hiddenByUser' = FALSE
    /\ reentered' = IF /\ className.visible /\ activeHotspot = h
                       /\ last.op = "mouseleave" /\ last.h = h
                       /\ last.wasVisible /\ last.prev = h
                    THEN h ELSE None
    /\ UNCHANGED << tooltip, hotspots, page, parallax, server, manager, listeners, activeHotspot, active, className,
                    style, content, frames, env >>

\* handleMouseLeave(event, hotspot)
MouseLeave(h) ==
    /\ listening("hotspot", "mouseleave")
    /\ LET cleared == clearTimeout(timers, "show")
       IN  /\ Len(cleared) < MaxTimers
           /\ timers' = setTimeout(cleared, "hide", None)
    /\ last' = step("mouseleave", h)
    /\ reentered' = None
    /\ UNCHANGED << tooltip, hotspots, page, parallax, server, manager, listeners, activeHotspot, active, className,
                    style, content, frames, env,
                    hiddenByUser >>

\* handleMouseMove(event, hotspot) with updateTooltipPosition(event)
MouseMove(h, ev) ==
    /\ listening("hotspot", "mousemove")
    /\ style' = IF activeHotspot = h /\ className.visible /\ ~env.touch
                THEN followPointer(style, env, tooltipRect, ev)
                ELSE style
    /\ last' = step("mousemove", h)
    /\ UNCHANGED << tooltip, hotspots, page, parallax, server, manager, listeners, activeHotspot, active, className,
                    content, timers, frames, env, hiddenByUser, reentered >>

\* handleTouchStart going through the show delay as handleMouseEnter does
TouchStartDelayed(h) ==
    /\ listening("hotspot", "touchstart")
    /\ env.touch
    /\ Len(timers) < MaxTimers
    /\ timers' = setTimeout(timers, "show", h)
    /\ last' = step("touchstart", h)
    /\ hiddenByUser' = FALSE
    /\ reentered' = None
    /\ UNCHANGED << tooltip, hotspots, page, parallax, server, manager, listeners, activeHotspot, active,
                    className, style, content, frames, env >>

\* handleTouchStart(event, hotspot); the browser delivers touch events on a
\* touch-capable device only
TouchStart(h) ==
    /\ listening("hotspot", "touchstart")
    /\ env.touch
    /\ roomForShow(h)
    /\ showTooltip(h)
    /\ last' = step("touchstart", h)
    /\ hiddenByUser' = FALSE
    /\ reentered' = None
    /\ UNCHANGED << tooltip, hotspots, page, parallax, server, manager, listeners, timers, env >>

\* handleClick without the toggle: every click shows
ClickAlwaysShows(h) ==
    /\ listening("hotspot", "click")
    /\ roomForShow(h)
    /\ showTooltip(h)
    /\ hiddenByUser' = FALSE
    /\ last' = step("click", h)
    /\ reentered' = None
    /\ UNCHANGED << tooltip, hotspots, page, parallax, server, manager, listeners, timers, env >>

\* handleClick(event, hotspot); stopPropagation keeps the click from the
\* document's listener
Click(h) ==
    /\ listening("hotspot", "click")
    /\ IF activeHotspot = h /\ className.visible
       THEN /\ hideTooltip(timers)
            /\ hiddenByUser' = TRUE
            /\ UNCHANGED << content, style, frames >>
       ELSE /\ roomForShow(h)
            /\ showTooltip(h)
            /\ hiddenByUser' = FALSE
            /\ UNCHANGED timers
    /\ last' = step("click", h)
    /\ reentered' = None
    /\ UNCHANGED << tooltip, hotspots, page, parallax, server, manager, listeners, env >>

\* handleDocumentClick without the test of the click's target
DocumentClickAlwaysHides(inTooltip) ==
    /\ listening("document", "click")
    /\ hideTooltip(timers)
    /\ hiddenByUser' = TRUE
    /\ reentered' = None
    /\ last' = step(IF inTooltip THEN "click-tooltip" ELSE "click-away", None)
    /\ UNCHANGED << tooltip, hotspots, page, parallax, server, manager, listeners, style, content, frames, env >>

\* handleDocumentClick(event) for a click that reaches the document: its
\* target is inside the tooltip, or outside the tooltip and every hotspot
DocumentClick(inTooltip) ==
    /\ listening("document", "click")
    /\ IF inTooltip
       THEN UNCHANGED << className, active, activeHotspot, timers, hiddenByUser, reentered >>
       ELSE /\ hideTooltip(timers)
            /\ hiddenByUser' = TRUE
            /\ reentered' = None
    /\ last' = step(IF inTooltip THEN "click-tooltip" ELSE "click-away", None)
    /\ UNCHANGED << tooltip, hotspots, page, parallax, server, manager, listeners, style, content, frames, env >>

\* the scroll listener: () => this.hideTooltip()
Scroll ==
    /\ listening("window", "scroll")
    /\ hideTooltip(timers)
    /\ last' = step("scroll", None)
    /\ hiddenByUser' = TRUE
    /\ reentered' = None
    /\ UNCHANGED << tooltip, hotspots, page, parallax, server, manager, listeners, style, content, frames, env >>

\* The resize listener, utils.debounce(() => this.updateTooltipPosition(), 250),
\* with its callback.  The callback calls updateTooltipPosition without an
\* event: it returns at the first test or skips the branch that follows the
\* pointer, and writes nothing.  The debounce timer lives in the closure of
\* utils.debounce, nothing reads it, and its callback changes no state, so
\* the listener and its callback are one step.
Resize ==
    /\ listening("window", "resize")
    /\ last' = step("resize", None)
    /\ UNCHANGED << tooltip, hotspots, page, parallax, server, manager, listeners, activeHotspot, active, className,
                    style, content, timers, frames, env, hiddenByUser, reentered >>

(* ----------------------- scheduled callbacks ---------------------------- *)

\* the callback of handleMouseEnter's timer: this.showTooltip(hotspot, event)
ShowTimerFires(i) ==
    /\ i \in 1 .. Len(timers)
    /\ timers[i].kind = "show"
    /\ mayElapse(timers, i)
    /\ roomForShow(timers[i].hotspot)
    /\ showTooltip(timers[i].hotspot)
    /\ timers' = elapsed(timers, i)
    /\ last' = step("show-timer", timers[i].hotspot)
    /\ UNCHANGED << tooltip, hotspots, page, parallax, server, manager, listeners, env, hiddenByUser, reentered >>

\* the hide timer elapsing with a callback that does not hide
HideTimerIgnored(i) ==
    /\ i \in 1 .. Len(timers)
    /\ timers[i].kind = "hide"
    /\ mayElapse(timers, i)
    /\ timers' = elapsed(timers, i)
    /\ last' = step("hide-timer", None)
    /\ UNCHANGED << tooltip, hotspots, page, parallax, server, manager, listeners, activeHotspot, active,
                    className, style, content, frames, env, hiddenByUser, reentered >>

\* the callback of handleMouseLeave's timer: this.hideTooltip()
HideTimerFires(i) ==
    /\ i \in 1 .. Len(timers)
    /\ timers[i].kind = "hide"
    /\ mayElapse(timers, i)
    /\ hideTooltip(elapsed(timers, i))
    /\ last' = step("hide-timer", None)
    /\ UNCHANGED << tooltip, hotspots, page, parallax, server, manager, listeners, style, content, frames, env, hiddenByUser, reentered >>

\* the requestAnimationFrame callback of showTooltip
AnimationFrame ==
    /\ frames > 0
    /\ frames' = frames - 1
    /\ className' = [ className EXCEPT !.visible = TRUE ]
    /\ last' = step("frame", None)
    /\ UNCHANGED << tooltip, hotspots, page, parallax, server, manager, listeners, activeHotspot, active, style,
                    content, timers, env,
                    hiddenByUser, reentered >>

(* ----------------------------- teardown -------------------------------- *)

\* destroyTooltips(): tooltipManager.destroy(), then tooltipManager = null
Destroy ==
    /\ manager
    /\ hideTooltip(timers)
    /\ listeners' = unbindAll(listeners)
    /\ manager' = FALSE
    /\ last' = step("destroy", None)
    /\ reentered' = None
    /\ UNCHANGED << tooltip, hotspots, page, parallax, server, style, content,
                    frames, env, hiddenByUser >>

\* The events and callbacks of the interaction state machine.  handleMouseMove
\* is explored under SpecMove below.
Next ==
    \/ \E h \in hotspots : MouseEnter(h)
    \/ \E h \in hotspots : MouseLeave(h)
    \/ \E h \in hotspots : TouchStart(h)
    \/ \E h \in hotspots : Click(h)
    \/ \E b \in BOOLEAN : DocumentClick(b)
    \/ Scroll
    \/ Resize
    \/ \E i \in 1 .. MaxTimers : ShowTimerFires(i)
    \/ \E i \in 1 .. MaxTimers : HideTimerFires(i)
    \/ AnimationFrame
    \/ Destroy

Spec == Init /\ [][Next]_vars

(* ---------------------- placement under the pointer -------------------- *)

\* handleMouseMove writes the tooltip's style only, which no handler reads
\* but positionTooltip and updateTooltipPosition themselves.  It is explored
\* with the immediate shows and hides (no delay timers) on all three devices.
InitMove == start({ desktopEnv, touchEnv, narrowEnv }) /\ tooltip /\ last = started

NextMove ==
    \/ \E h \in hotspots : \E ev \in pointerOver(h) : MouseMove(h, ev)
    \/ \E h \in hotspots : TouchStart(h)
    \/ \E h \in hotspots : Click(h)
    \/ \E b \in BOOLEAN : DocumentClick(b)
    \/ Scroll
    \/ Resize
    \/ AnimationFrame

SpecMove == InitMove /\ [][NextMove]_vars

(* ------------------------ placement on any page ------------------------ *)

\* positionTooltip and updateTooltipPosition compute the tooltip's place from
\* what the browser measures at the call: the rectangles of hotspot and
\* tooltip, the viewport, the pointer.  Here they are applied to rectangles
\* and viewports drawn from a grid instead of the three hotspots of the page.

\* the hotspot's left edge is at one of the columns 0 .. GridCols, its top
\* edge at one of the rows 0 .. GridRows
GridCols == 8
GridRows == 3

\* hotspot.getBoundingClientRect() anywhere on the page: columns 120 px
\* apart, rows 125 px apart from 5 px below the viewport's top (the second
\* row leaves exactly the room a 100 px tooltip needs above it)
HotspotRects ==
    { [ left |-> 120 * c, top |-> 5 + 125 * r, width |-> sz[1], height |-> sz[2] ] :
        c \in 0 .. GridCols, r \in 0 .. GridRows, sz \in { << 40, 40 >>, << 100, 60 >> } }

\* tooltip.getBoundingClientRect(): a small and a tall tooltip, of usual
\* width or as wide as a small window
TooltipRects ==
    { [ width |-> w, height |-> ht ] : w \in { 200, 780 }, ht \in { 100, 300 } }

\* the devices: desktop windows of 1024 x 768 and 768 x 560, a narrow window
\* without touch, a phone, and a touch-capable screen of desktop width
PlaceEnvs ==
    { desktopEnv, [ touch |-> FALSE, width |-> 768, height |-> 560 ],
      narrowEnv, touchEnv, [ touch |-> TRUE, width |-> 1024, height |-> 768 ] }

\* the record of a placement: what was computed last and from which
\* rectangles of hotspot (hr) and tooltip (tr) and which pointer position (ev)
measured(op, hr, tr, ev) == [ op |-> op, hr |-> hr, tr |-> tr, ev |-> ev ]

InitPlace ==
    /\ start(PlaceEnvs)
    /\ tooltip
    /\ hotspots = Hotspots
    /\ \E hr \in HotspotRects : \E tr \in TooltipRects :
          last = measured("measure", hr, tr, [ clientX |-> 0, clientY |-> 0 ])

\* positionTooltip(hotspot, event), as showTooltip calls it
Place ==
    /\ last.op = "measure"
    /\ LET placed == positionTooltip(style, env, last.tr, last.hr)
       IN  /\ style' = placed.style
           /\ className' = placed.className
    /\ last' = [ last EXCEPT !.op = "place" ]
    /\ UNCHANGED << tooltip, hotspots, page, parallax, server, manager, listeners, activeHotspot, active,
                    content, timers, frames, env, hiddenByUser, reentered >>

\* updateTooltipPosition(event) for a mousemove over the hotspot of the
\* visible tooltip, the pointer being at ev
Follow(ev) ==
    /\ last.op \in { "place", "follow" }
    /\ className.visible
    /\ ~env.touch
    /\ style' = followPointer(style, env, last.tr, ev)
    /\ last' = [ last EXCEPT !.op = "follow", !.ev = ev ]
    /\ UNCHANGED << tooltip, hotspots, page, parallax, server, manager, listeners, activeHotspot, active,
                    className, content, timers, frames, env, hiddenByUser, reentered >>

NextPlace ==
    \/ Place
    \/ \E ev \in pointerIn(last.hr) : Follow(ev)

SpecPlace == InitPlace /\ [][NextPlace]_vars

(* ------------------- page start and parallax controller ---------------- *)

\* most animation loops (pending animate callbacks) the model keeps
MaxLoops == 2

\* The drag is followed on one axis (the code treats x and y alike).  mouseX
\* is clamped to [-1, 1]; positions are counted in halves, and a frame's
\* smoothing moves currentX one half towards mouseX.
DragRange == { -2, 0, 2 }

\* what the tooltip's manager owns, apart from its global, its listeners and
\* the record of the last step
tooltipVars == << tooltip, hotspots, activeHotspot, active, className, style, content,
                 timers, frames, env, hiddenByUser, reentered >>

\* the listeners ParallaxController.bindEvents registers: bound copies of the
\* methods, and one arrow function
parallaxBindEvents ==
    { [ target |-> "scene", type |-> t, fn |-> "bound" ] :
        t \in { "mousedown", "mousemove", "mouseup", "mouseleave",
                "touchstart", "touchmove", "touchend" } }
    \cup { [ target |-> "scene", type |-> "dragstart", fn |-> "closure" ],
           [ target |-> "window", type |-> "blur", fn |-> "bound" ],
           [ target |-> "window", type |-> "focus", fn |-> "bound" ],
           [ target |-> "document", type |-> "mouseup", fn |-> "bound" ] }

\* the listeners left by ParallaxController.destroy(), which passes the
\* methods themselves, not the bound copies that were registered
parallaxUnbind(ls) ==
    ls \ ({ [ target |-> "scene", type |-> t, fn |-> "method" ] :
               t \in { "mousedown", "mousemove", "mouseup", "mouseleave",
                       "touchstart", "touchmove", "touchend" } }
          \cup { [ target |-> "document", type |-> "mouseup", fn |-> "method" ],
                 [ target |-> "window", type |-> "blur", fn |-> "method" ],
                 [ target |-> "window", type |-> "focus", fn |-> "method" ] })

parallaxListening(target, type) ==
    \E l \in parallax.listeners : l.target = target /\ l.type = type

\* startAnimation(): animate() runs updateTransform once and requests the
\* next frame, whose handle animationId then holds
startAnimation(c) ==
    [ c EXCEPT !.currentX = IF c.mouseX > @ THEN @ + 1 ELSE IF c.mouseX < @ THEN @ - 1 ELSE @,
               !.loops = @ + 1,
               !.animationId = TRUE ]

\* pause(): the frame animationId names is cancelled
pause(c) ==
    [ c EXCEPT !.isActive = FALSE,
               !.loops = IF c.animationId THEN @ - 1 ELSE @,
               !.animationId = FALSE ]

\* resume()
resume(c) ==
    IF ~c.animationId THEN startAnimation([ c EXCEPT !.isActive = TRUE ]) ELSE c

\* new ParallaxController(): the constructor and init(), which returns
\* before binding anything when the container or the scene is missing
newController(c, pg) ==
    IF ~pg.scene
    THEN [ c EXCEPT !.controller = TRUE ]
    ELSE [ startAnimation([ c EXCEPT !.controller = TRUE, !.listeners = parallaxBindEvents ])
             EXCEPT !.isActive = TRUE ]

\* initParallax refusing touch-capable devices
initParallaxNoTouch(c, pg, e) ==
    IF ~pg.supports3d \/ e.touch THEN c ELSE newController(c, pg)

\* initParallax(): on every device whose browser supports 3D transforms
initParallax(c, pg, e) ==
    IF ~pg.supports3d THEN c ELSE newController(c, pg)

\* the DOMContentLoaded handler without the reduced-motion test
DOMContentLoadedAlwaysParallax ==
    /\ ~page.loaded
    /\ page' = [ page EXCEPT !.loaded = TRUE ]
    /\ parallax' = initParallax(parallax, page, env)
    /\ manager' = TRUE
    /\ listeners' = init(tooltip, hotspots)
    /\ last' = step("load", None)
    /\ UNCHANGED << tooltipVars, server >>

\* the DOMContentLoaded handler of main.js: initParallax() unless reduced
\* motion is preferred, then initTooltips()
DOMContentLoaded ==
    /\ ~page.loaded
    /\ page' = [ page EXCEPT !.loaded = TRUE ]
    /\ parallax' = IF ~page.reducedMotion THEN initParallax(parallax, page, env)
                                          ELSE parallax
    /\ manager' = TRUE
    /\ listeners' = init(tooltip, hotspots)
    /\ last' = step("load", None)
    /\ UNCHANGED << tooltipVars, server >>

\* a parallax handler's step: only the controller changes
parallaxStep(op, c) ==
    /\ parallax' = c
    /\ last' = step(op, None)
    /\ UNCHANGED << tooltipVars, manager, listeners, page, server >>

\* handleMouseDown(event)
SceneMouseDown ==
    /\ parallaxListening("scene", "mousedown")
    /\ parallaxStep("scene-mousedown", [ parallax EXCEPT !.isDragging = TRUE, !.isActive = TRUE ])

\* handleMouseMove(event), the drag having reached v
SceneMouseMove(v) ==
    /\ parallaxListening("scene", "mousemove")
    /\ parallaxStep("scene-mousemove",
                    IF parallax.isDragging /\ parallax.isActive
                    THEN [ parallax EXCEPT !.mouseX = v ] ELSE parallax)

\* handleMouseUp(event) on the scene or the document, and handleMouseLeave()
SceneMouseUp ==
    /\ \/ parallaxListening("scene", "mouseup")
       \/ parallaxListening("document", "mouseup")
       \/ parallaxListening("scene", "mouseleave")
    /\ parallaxStep("scene-mouseup", [ parallax EXCEPT !.isDragging = FALSE ])

\* handleTouchStart(event) with one finger
SceneTouchStart ==
    /\ parallaxListening("scene", "touchstart")
    /\ env.touch
    /\ parallaxStep("scene-touchstart", [ parallax EXCEPT !.isDragging = TRUE, !.isActive = TRUE ])

\* handleTouchMove(event) with one finger, the drag having reached v
SceneTouchMove(v) ==
    /\ parallaxListening("scene", "touchmove")
    /\ env.touch
    /\ parallaxStep("scene-touchmove",
                    IF parallax.isDragging /\ parallax.isActive
                    THEN [ parallax EXCEPT !.mouseX = v ] ELSE parallax)

\* handleTouchEnd(event)
SceneTouchEnd ==
    /\ parallaxListening("scene", "touchend")
    /\ env.touch
    /\ parallaxStep("scene-touchend", [ parallax EXCEPT !.isDragging = FALSE ])

\* the window's blur listener: pause()
Blur ==
    /\ parallaxListening("window", "blur")
    /\ parallaxStep("blur", pause(parallax))

\* the window's focus listener: resume()
Focus ==
    /\ parallaxListening("window", "focus")
    /\ ~parallax.animationId => parallax.loops < MaxLoops
    /\ parallaxStep("focus", resume(parallax))

\* a pending animate callback runs: updateTransform, then the next frame is
\* requested and animationId holds its handle
ParallaxFrame ==
    /\ parallax.loops > 0
    /\ parallaxStep("parallax-frame", startAnimation([ parallax EXCEPT !.loops = @ - 1 ]))

\* main.js's debounced resize listener: handleResize()
PageResize ==
    /\ page.loaded
    /\ parallaxStep("page-resize",
                    IF parallax.controller
                    THEN [ parallax EXCEPT !.mouseX = 0, !.currentX = 0 ] ELSE parallax)

\* destroyParallax(): parallaxController.destroy(), then the global is null
DestroyParallax ==
    /\ parallax.controller
    /\ parallaxStep("destroy-parallax",
                    [ pause(parallax) EXCEPT !.listeners = parallaxUnbind(@),
                                             !.controller = FALSE,
                                             !.destroyed = TRUE ])

\* the page before DOMContentLoaded, with or without the reduced-motion
\* preference, 3D transform support and the parallax elements
InitPage ==
    /\ blank({ desktopEnv, touchEnv })
    /\ manager = FALSE
    /\ listeners = { }
    /\ last = started
    /\ page \in [ loaded : { FALSE }, reducedMotion : BOOLEAN,
                   supports3d : BOOLEAN, scene : BOOLEAN ]
    /\ parallax = NoParallax
    /\ server = freshServer

NextPage ==
    \/ DOMContentLoaded
    \/ SceneMouseDown
    \/ \E v \in DragRange : SceneMouseMove(v)
    \/ SceneMouseUp
    \/ SceneTouchStart
    \/ \E v \in DragRange : SceneTouchMove(v)
    \/ SceneTouchEnd
    \/ Blur
    \/ Focus
    \/ ParallaxFrame
    \/ PageResize
    \/ DestroyParallax

SpecPage == InitPage /\ [][NextPage]_vars

(* ----------------------- the CMS backend: requests --------------------- *)

\* what the backend leaves alone: everything in the browser
clientVars == << tooltipVars, manager, listeners, page, parallax >>

\* the answer to a request of session s, with the credentials or coordinates
\* of the request's body; status 0 while no answer is sent yet
response(op, s, status) ==
    [ op |-> op, s |-> s, status |-> status, username |-> Missing,
      password |-> Missing, coordinates |-> NoCoords, authenticated |-> FALSE ]

requireAuthAnySession(s) == \E t \in Sessions : server.sessions[t] # NoAdmin

\* middleware/auth.js requireAuth: req.session && req.session.admin
requireAuth(s) == server.sessions[s] # NoAdmin

loginStatusNoCompare(username, password) ==
    IF username = Missing \/ password = Missing THEN 400
    ELSE IF username \notin DOMAIN server.admins THEN 401
    ELSE 200

\* POST /api/auth/login up to the session assignment
loginStatus(username, password) ==
    IF username = Missing \/ password = Missing THEN 400
    ELSE IF username \notin DOMAIN server.admins THEN 401
    ELSE IF ~bcryptCompare(password, server.admins[username]) THEN 401
    ELSE 200

\* POST /api/auth/login
Login(s, username, password) ==
    LET status == loginStatus(username, password) IN
    /\ server' = IF status = 200
                 THEN [ server EXCEPT !.sessions[s] = [ id |-> 1, username |-> username ] ]
                 ELSE server
    /\ last' = [ response("login", s, status) EXCEPT !.username = username,
                                                       !.password = password ]
    /\ UNCHANGED clientVars

\* POST /api/auth/logout: req.session.destroy
Logout(s) ==
    /\ server' = [ server EXCEPT !.sessions[s] = NoAdmin ]
    /\ last' = response("logout", s, 200)
    /\ UNCHANGED clientVars

\* GET /api/auth/status
Status(s) ==
    /\ last' = [ response("status", s, 200) EXCEPT
                   !.authenticated = (server.sessions[s] # NoAdmin) ]
    /\ UNCHANGED << server, clientVars >>

\* the shortest new password change-password accepts
minPasswordLength == 6

\* POST /api/auth/change-password
ChangePassword(s, currentPassword, newPassword) ==
    LET status ==
            IF ~requireAuth(s) THEN 401
            ELSE IF currentPassword = Missing \/ newPassword = Missing THEN 400
            ELSE IF Len(newPassword) < minPasswordLength THEN 400
            ELSE IF server.sessions[s].username \notin DOMAIN server.admins THEN 404
            ELSE IF ~bcryptCompare(currentPassword,
                                   server.admins[server.sessions[s].username]) THEN 401
            ELSE 200
    IN
    /\ server' = IF status = 200
                 THEN [ server EXCEPT !.admins[server.sessions[s].username] =
                                          bcryptHash(newPassword) ]
                 ELSE server
    /\ last' = response("change-password", s, status)
    /\ UNCHANGED clientVars

\* the test of the coordinate validation in POST / and PUT /:id
outOfRange(c) ==
    c.x < 0 \/ c.x > 1 \/ c.y < 0 \/ c.y > 1 \/ c.w < 0 \/ c.w > 1 \/ c.h < 0 \/ c.h > 1

\* the ids of the rows of the projects table
ids(rows) == { r.id : r \in rows }

\* projectsDB.create: INSERT, the row gets the next AUTOINCREMENT id
create(srv, coordinates) ==
    [ srv EXCEPT !.db = @ \cup { [ id |-> srv.nextId,
                                   coordinates |-> JSONstringify(coordinates) ] },
                 !.nextId = @ + 1 ]

\* projectsDB.update: UPDATE ... WHERE id = ?
update(srv, id, coordinates) ==
    [ srv EXCEPT !.db = { IF r.id = id
                          THEN [ r EXCEPT !.coordinates = JSONstringify(coordinates) ]
                          ELSE r : r \in @ } ]

\* projectsDB.delete: DELETE ... WHERE id = ?
delete(srv, id) == [ srv EXCEPT !.db = { r \in @ : r.id # id } ]

\* projectsDB.getAll: the rows with their JSON fields parsed
getAll(rows) ==
    { [ id |-> r.id, coordinates |-> JSONparse(r.coordinates) ] : r \in rows }

\* the projectsData that generateProjectsJSON writes for the rows it has read
projectsData(projects) ==
    { [ id |-> toString(item.id), region |-> item.coordinates ] : item \in projects }

\* the slot a request that goes on after its checks takes
freeSlot(Ks) == CHOOSE k \in Ks : server.inflight[k] = Idle /\
                    \A j \in Ks : server.inflight[j] = Idle => k <= j

hasFreeSlot(Ks) == \E k \in Ks : server.inflight[k] = Idle

\* POST /api/projects: the checks and the INSERT
Create(s, title, coordinates, Ks) ==
    LET status ==
            IF ~requireAuth(s) THEN 401
            ELSE IF ~title THEN 400
            ELSE IF coordinates.given /\ outOfRange(coordinates) THEN 400
            ELSE 0
        k == freeSlot(Ks)
    IN
    /\ status = 0 => server.nextId <= MaxId
    /\ IF status # 0
       THEN /\ server' = server
            /\ last' = [ response("create", s, status) EXCEPT !.coordinates = coordinates ]
       ELSE /\ hasFreeSlot(Ks)
            /\ last' = [ response("create", s, 0) EXCEPT !.coordinates = coordinates ]
            /\ server' =
                [ create(server, IF coordinates.given THEN coordinates ELSE NoCoords)
                      EXCEPT !.inflight[k] = [ Idle EXCEPT !.stage = "read", !.op = "create" ] ]
    /\ UNCHANGED clientVars

\* PUT /api/projects/:id: the checks, with getById
Update(s, id, title, coordinates, Ks) ==
    LET status ==
            IF ~requireAuth(s) THEN 401
            ELSE IF ~title THEN 400
            ELSE IF id \notin ids(server.db) THEN 404
            ELSE IF coordinates.given /\ outOfRange(coordinates) THEN 400
            ELSE 0
        k == freeSlot(Ks)
    IN
    /\ IF status # 0
       THEN /\ server' = server
            /\ last' = [ response("update", s, status) EXCEPT !.coordinates = coordinates ]
       ELSE /\ hasFreeSlot(Ks)
            /\ last' = [ response("update", s, 0) EXCEPT !.coordinates = coordinates ]
            /\ server' =
                [ server EXCEPT !.inflight[k] =
                    [ Idle EXCEPT !.stage = "update", !.op = "update", !.id = id,
                                  !.coordinates = IF coordinates.given THEN coordinates
                                                  ELSE NoCoords ] ]
    /\ UNCHANGED clientVars

\* DELETE /api/projects/:id: the checks, with getById
Delete(s, id, Ks) ==
    LET status ==
            IF ~requireAuth(s) THEN 401
            ELSE IF id \notin ids(server.db) THEN 404
            ELSE 0
        k == freeSlot(Ks)
    IN
    /\ IF status # 0
       THEN /\ server' = server
            /\ last' = response("delete", s, status)
       ELSE /\ hasFreeSlot(Ks)
            /\ last' = response("delete", s, 0)
            /\ server' =
                [ server EXCEPT !.inflight[k] =
                    [ Idle EXCEPT !.stage = "delete", !.op = "delete",
                                  !.ids = { id } ] ]
    /\ UNCHANGED clientVars

\* POST /api/projects/bulk/delete: the checks
BulkDelete(s, projectIds, Ks) ==
    LET status ==
            IF ~requireAuth(s) THEN 401
            ELSE IF projectIds = { } THEN 400
            ELSE 0
        k == freeSlot(Ks)
    IN
    /\ IF status # 0
       THEN /\ server' = server
            /\ last' = response("bulk-delete", s, status)
       ELSE /\ hasFreeSlot(Ks)
            /\ last' = response("bulk-delete", s, 0)
            /\ server' =
                [ server EXCEPT !.inflight[k] =
                    [ Idle EXCEPT !.stage = "delete", !.op = "bulk-delete",
                                  !.ids = projectIds ] ]
    /\ UNCHANGED clientVars

\* POST /api/projects/import/json: the checks, and getAll when overwriting
Import(s, isArray, projects, overwrite, Ks) ==
    LET status ==
            IF ~requireAuth(s) THEN 401
            ELSE IF ~isArray THEN 400
            ELSE 0
        existing == IF overwrite THEN ids(server.db) ELSE { }
        k == freeSlot(Ks)
    IN
    /\ IF status # 0
       THEN /\ server' = server
            /\ last' = response("import", s, status)
       ELSE /\ hasFreeSlot(Ks)
            /\ last' = response("import", s, 0)
            /\ server' =
                [ server EXCEPT !.inflight[k] =
                    [ Idle EXCEPT !.stage = IF existing # { } THEN "delete"
                                            ELSE IF projects # << >> THEN "create"
                                            ELSE "read",
                                  !.op = "import", !.ids = existing,
                                  !.projects = projects ] ]
    /\ UNCHANGED clientVars

\* the least of a non-empty set of ids
least(S) == CHOOSE n \in S : \A m \in S : n <= m

\* the next database call of a request in flight: UPDATE, DELETE or INSERT
DbRun(k) ==
    LET slot == server.inflight[k]
        done == [ slot EXCEPT !.stage = "read" ]
    IN
    /\ slot.stage \in { "update", "delete", "create" }
    /\ CASE slot.stage = "update" ->
              IF slot.id \in ids(server.db)
              THEN /\ server' = [ update(server, slot.id, slot.coordinates)
                                     EXCEPT !.inflight[k] = done ]
                   /\ last' = response("db.run", None, 0)
              ELSE /\ server' = [ server EXCEPT !.inflight[k] = Idle ]
                   /\ last' = response("db.run", None, 404)
         [] slot.stage = "delete" /\ slot.op = "delete" ->
              IF least(slot.ids) \in ids(server.db)
              THEN /\ server' = [ delete(server, least(slot.ids))
                                     EXCEPT !.inflight[k] = done ]
                   /\ last' = response("db.run", None, 0)
              ELSE /\ server' = [ server EXCEPT !.inflight[k] = Idle ]
                   /\ last' = response("db.run", None, 404)
         [] slot.stage = "delete" /\ slot.op # "delete" ->
              LET rest == slot.ids \ { least(slot.ids) } IN
              /\ server' = [ delete(server, least(slot.ids)) EXCEPT !.inflight[k] =
                               [ slot EXCEPT !.ids = rest,
                                             !.stage = IF rest # { } THEN "delete"
                                                       ELSE IF slot.projects # << >>
                                                       THEN "create"
                                                       ELSE "read" ] ]
              /\ last' = response("db.run", None, 0)
         [] slot.stage = "create" ->
              LET rest == Tail(slot.projects)
                  project == Head(slot.projects)
              IN
              /\ server.nextId <= MaxId
              /\ server' = [ create(server, IF project.given THEN project ELSE NoCoords)
                               EXCEPT !.inflight[k] =
                                 [ slot EXCEPT !.projects = rest,
                                               !.stage = IF rest # << >> THEN "create"
                                                         ELSE "read" ] ]
              /\ last' = response("db.run", None, 0)
    /\ UNCHANGED clientVars

\* generateProjectsJSON: await projectsDB.getAll()
RegenRead(k) ==
    LET slot == server.inflight[k] IN
    /\ slot.stage = "read"
    /\ server' = [ server EXCEPT !.inflight[k] =
                     [ slot EXCEPT !.stage = "file", !.snapshot = getAll(server.db) ] ]
    /\ last' = response("getAll", None, 0)
    /\ UNCHANGED clientVars

\* generateProjectsJSON: fs.writeFileSync of what was read, then the answer
RegenFile(k) ==
    LET slot == server.inflight[k] IN
    /\ slot.stage = "file"
    /\ server' = [ server EXCEPT !.json = projectsData(slot.snapshot),
                                 !.inflight[k] = Idle ]
    /\ last' = response("writeFileSync", None, IF slot.op = "create" THEN 201 ELSE 200)
    /\ UNCHANGED clientVars

\* POST /api/upload/image: requireAuth, multer's upload.single, the handler
Upload(s, file) ==
    LET status ==
            IF ~requireAuth(s) THEN 401
            ELSE IF file = Missing THEN 400
            ELSE 200
    IN
    /\ server' = IF status = 200 THEN [ server EXCEPT !.files = @ \cup { file } ]
                 ELSE server
    /\ last' = response("upload", s, status)
    /\ UNCHANGED clientVars

\* DELETE /api/upload/file/:type/:filename, of a file in uploads/images
DeleteFile(s, type, filename) ==
    LET status ==
            IF ~requireAuth(s) THEN 401
            ELSE IF type \notin { "images", "videos" } THEN 400
            ELSE IF ~(type = "images" /\ filename \in server.files) THEN 404
            ELSE 200
    IN
    /\ server' = IF status = 200 THEN [ server EXCEPT !.files = @ \ { filename } ]
                 ELSE server
    /\ last' = response("delete-file", s, status)
    /\ UNCHANGED clientVars

\* coordinates inside the map, and bodies with one coordinate outside it
InsideCoords == [ given |-> TRUE, x |-> 0, y |-> 1, w |-> 1, h |-> 0 ]
FarRight == [ InsideCoords EXCEPT !.x = 2 ]
OutsideCoords == { FarRight, [ InsideCoords EXCEPT !.h = -1 ] }

\* the backend is listening and the browser has not loaded the page
serverStarted == response("listen", None, 0)

backendOnly ==
    /\ blank({ desktopEnv })
    /\ tooltip
    /\ hotspots = Hotspots
    /\ manager = FALSE
    /\ listeners = { }
    /\ page = [ loadedPage EXCEPT !.loaded = FALSE ]
    /\ parallax = NoParallax
    /\ last = serverStarted

\* Sessions log in and out, ask for their status and change the password.
InitAuth == backendOnly /\ server = freshServer

NextAuth ==
    \/ \E s \in Sessions, u \in { Missing, Admin, Stranger },
          p \in Passwords \cup { Missing } : Login(s, u, p)
    \/ \E s \in Sessions : Logout(s)
    \/ \E s \in Sessions : Status(s)
    \/ \E s \in Sessions, cur \in Passwords \cup { Missing },
          new \in Passwords \cup { ShortPassword, Missing } : ChangePassword(s, cur, new)

SpecAuth == InitAuth /\ [][NextAuth]_vars

\* Sessions log in and out and send every kind of mutating request, with and
\* without an admin; the project requests are served one at a time.
InitAdmin == backendOnly /\ server = freshServer

NextAdmin ==
    \/ \E s \in Sessions, p \in Passwords : Login(s, Admin, p)
    \/ \E s \in Sessions : Logout(s)
    \/ \E s \in Sessions : ChangePassword(s, "admin123", "turfmapp")
    \/ \E s \in Sessions : Create(s, TRUE, NoCoords, { 1 })
    \/ \E s \in Sessions, id \in 1 .. MaxId : Update(s, id, TRUE, NoCoords, { 1 })
    \/ \E s \in Sessions, id \in 1 .. MaxId : Delete(s, id, { 1 })
    \/ \E s \in Sessions : BulkDelete(s, 1 .. MaxId, { 1 })
    \/ \E s \in Sessions : Import(s, TRUE, << NoCoords >>, TRUE, { 1 })
    \/ \E s \in Sessions, f \in Files : Upload(s, f)
    \/ \E s \in Sessions, f \in Files : DeleteFile(s, "images", f)
    \/ DbRun(1)
    \/ RegenRead(1)
    \/ RegenFile(1)

SpecAdmin == InitAdmin /\ [][NextAdmin]_vars

\* One logged-in admin sends project requests that are served side by side.
InitData ==
    /\ backendOnly
    /\ server = [ freshServer EXCEPT !.sessions[1] = [ id |-> 1, username |-> Admin ] ]

NextData ==
    \/ \E c \in { NoCoords, InsideCoords } \cup OutsideCoords :
          Create(1, TRUE, c, Slots)
    \/ \E id \in 1 .. MaxId, c \in { InsideCoords } \cup OutsideCoords :
          Update(1, id, TRUE, c, Slots)
    \/ \E id \in 1 .. MaxId : Delete(1, id, Slots)
    \/ \E projectIds \in SUBSET (1 .. MaxId) : BulkDelete(1, projectIds, Slots)
    \/ \E overwrite \in BOOLEAN,
          projects \in { << InsideCoords >>, << FarRight >> } :
          Import(1, TRUE, projects, overwrite, Slots)
    \/ \E k \in Slots : DbRun(k)
    \/ \E k \in Slots : RegenRead(k)
    \/ \E k \in Slots : RegenFile(k)

SpecData == InitData /\ [][NextData]_vars

(* ============================ the claims =============================== *)

\* the hotspots that carry the active-highlight flag
activeHotspots == { h \in DOMAIN active : active[h] }

\* the tooltip shows the registered text of project p
showsProject(p) ==
    /\ content.title = << "title", p >>
    /\ content.description = << "description", p >>
    /\ content.tech = << << "tech", p, "a" >>, << "tech", p, "b" >> >>

\* C1: in every reachable state at most one hotspot carries the
\* active-highlight flag (a show for a new hotspot clears the flag of the
\* hotspot shown before).
C1_AtMostOneActiveFlag == Cardinality(activeHotspots) <= 1

\* C2: after a hide by explicit user action (click-away, toggle-off click,
\* scroll) the tooltip is hidden and stays hidden until the next
\* pointer-enter, click or touch-start on a hotspot: nothing pending at the
\* time of the hide shows it again.
C2_UserHideIsFinal == hiddenByUser => ~className.visible

\* C3: after teardown no listener of bindEvents is registered, no delay timer
\* is outstanding and the tooltip is hidden with no hotspot associated, so no
\* later event or callback changes it.
C3_TeardownSilences ==
    ~manager => /\ listeners = { }
                /\ timers = << >>
                /\ ~className.visible
                /\ activeHotspot = None

\* C4: at every moment at most one show-delay timer and at most one
\* hide-delay timer is outstanding.
C4_OneTimerPerKind ==
    /\ Cardinality(outstanding(timers, "show")) <= 1
    /\ Cardinality(outstanding(timers, "hide")) <= 1

\* C5: when the pointer has left a hotspot, no show timer started by an enter
\* of that hotspot is outstanding any more (leaving before the show delay has
\* elapsed cancels the show).
C5_LeaveCancelsShow ==
    last.op = "mouseleave" =>
        \A i \in outstanding(timers, "show") : timers[i].hotspot # last.h

\* C6: when the show timer of a hotspot with registered project data elapses,
\* the tooltip is visible, associated with that hotspot, the hotspot has the
\* active flag, and title, description and tags are those registered for the
\* hotspot's identifier.
C6_ShowTimerShows ==
    (last.op = "show-timer" /\ hasProject(datasetProject(last.h))) =>
        /\ className.visible
        /\ activeHotspot = last.h
        /\ active[last.h]
        /\ showsProject(datasetProject(last.h))

\* C6 witness: a show timer of a registered hotspot has elapsed on a hidden
\* tooltip.
C6_Witness ==
    /\ last.op = "show-timer"
    /\ hasProject(datasetProject(last.h))
    /\ ~last.wasVisible
    /\ className.visible

\* C7: once the pointer has left the hotspot of the visible tooltip and
\* re-entered it before the hide delay elapsed, the tooltip stays visible and
\* associated with that hotspot until the next user event (no timer pending
\* at the re-enter hides or re-targets it).
C7_ReenterKeepsVisible ==
    reentered # None => (className.visible /\ activeHotspot = reentered)

\* C8: immediately after a scroll event the tooltip is not visible, no
\* hotspot is associated, and the hotspot that was associated before the
\* scroll has lost its active flag.
C8_ScrollHides ==
    last.op = "scroll" =>
        /\ ~className.visible
        /\ activeHotspot = None
        /\ (last.prev # None => ~active[last.prev])

\* C8 witness: a scroll has hidden a visible tooltip while a timer was
\* outstanding.
C8_Witness ==
    /\ last.op = "scroll"
    /\ last.wasVisible
    /\ last.prev # None
    /\ timers # << >>

\* C9: a click on the hotspot associated with the visible tooltip hides it:
\* afterwards the tooltip is not visible, no hotspot is associated and that
\* hotspot's active flag is cleared.
C9_ToggleOff ==
    (last.op = "click" /\ last.wasVisible /\ last.prev = last.h) =>
        /\ ~className.visible
        /\ activeHotspot = None
        /\ ~active[last.h]

\* C9 witness: the associated hotspot of the visible tooltip has been clicked.
C9_Witness ==
    /\ last.op = "click"
    /\ last.wasVisible
    /\ last.prev = last.h
    /\ ~className.visible

\* C10: a click on a different registered hotspot while the tooltip is
\* visible leaves it visible, associated with the clicked hotspot and showing
\* its content, and clears the previous hotspot's active flag.
C10_SwitchClearsPrevious ==
    (/\ last.op = "click"
     /\ last.wasVisible
     /\ last.prev \notin { None, last.h }
     /\ hasProject(datasetProject(last.h))) =>
        /\ className.visible
        /\ activeHotspot = last.h
        /\ showsProject(datasetProject(last.h))
        /\ ~active[last.prev]

\* the steps that ask for the tooltip to be shown for a hotspot: the expiry
\* of a show timer, a click on a hotspot, a touch-start
ShowRequests == { "show-timer", "click", "touchstart" }

C12_NoListenerWithoutElements ==
    (~tooltip \/ hotspots = { }) => listeners = { }

\* C12 amended: when the tooltip element is missing at initialisation no
\* listener is bound; when the tooltip element or the hotspot elements are
\* missing, no later event, callback or teardown changes the tooltip: it
\* stays hidden, without associated hotspot, active flag, content, placement,
\* timer or pending frame.
C12_MissingElementInert ==
    /\ ~tooltip => listeners = { }
    /\ (~tooltip \/ hotspots = { }) =>
          /\ ~className.visible
          /\ activeHotspot = None
          /\ activeHotspots = { }
          /\ content = BlankContent
          /\ style = BlankStyle
          /\ timers = << >>
          /\ frames = 0

\* C12 witness: on a page with the tooltip element and no hotspot, teardown
\* has run and a scroll event has reached the listener that is still bound.
C12_Witness ==
    /\ tooltip
    /\ hotspots = { }
    /\ ~manager
    /\ last.op = "scroll"

\* C13: when the touch-start handler returns for a hotspot with registered
\* project data, the tooltip is visible and associated with the touched
\* hotspot, whatever the state before the touch; no timer has to elapse.
C13_TouchShowsAtOnce ==
    (last.op = "touchstart" /\ hasProject(datasetProject(last.h))) =>
        /\ className.visible
        /\ activeHotspot = last.h

\* C13 witness: a registered hotspot has been touched while the tooltip was
\* hidden.
C13_Witness ==
    /\ last.op = "touchstart"
    /\ hasProject(datasetProject(last.h))
    /\ ~last.wasVisible
    /\ last.prev = None
    /\ className.visible

\* the placement was computed in mobile mode: on a touch-capable device or in
\* a viewport narrower than 768 px
mobileMode == env.touch \/ env.width < 768

\* the horizontal centre of the hotspot measured last (its rectangle has an
\* even width)
hotspotCentre == last.hr.left + last.hr.width \div 2

\* the tooltip measured last, centred on x, passes the right or left margin
\* of 15 px (its rectangle has an even width)
passesRight(x) == x + last.tr.width \div 2 > env.width - 15
passesLeft(x) == x - last.tr.width \div 2 < 15

\* C14: in mobile mode (touch-capable, or viewport narrower than 768 px) the
\* placement is the bottom sheet whatever the hotspot's rectangle: left 50%
\* with translateX(-50%), 20 px from the bottom, top auto, tag bottom.
C14_MobileIsBottomSheet ==
    (last.op = "place" /\ mobileMode) =>
        /\ style = [ left |-> << "pct", 50 >>, top |-> << "auto", 0 >>,
                     bottom |-> << "px", 20 >>, transform |-> "translateX(-50%)" ]
        /\ className = [ visible |-> TRUE, position |-> "bottom" ]

\* C14 witness: a placement in a 500 px wide window without touch, for a
\* hotspot that is neither in the first column nor in the first row.
C14_Witness ==
    /\ last.op = "place"
    /\ ~env.touch
    /\ env.width = 500
    /\ last.hr.left > 0
    /\ last.hr.top > 15

\* C15 as stated: on a desktop, a hotspot with its top edge less than 15 px
\* below the viewport's top and a tooltip 100 px high get the tag bottom,
\* wherever the hotspot is horizontally and whatever the tooltip's width.
C15_TopEdgeAlwaysBottom ==
    (last.op = "place" /\ ~mobileMode /\ last.hr.top < 15 /\ last.tr.height = 100) =>
        className.position = "bottom"

\* C15 amended: on a desktop, a hotspot with its top edge less than 15 px
\* below the viewport's top and a tooltip 100 px high get the tag bottom, the
\* tooltip 15 px under the hotspot and centred on it, provided the centred
\* tooltip passes neither side margin; where it passes one the tag is left
\* or right.
C15_TopEdgeBottomIfCentredFits ==
    (last.op = "place" /\ ~mobileMode /\ last.hr.top < 15 /\ last.tr.height = 100) =>
        IF passesRight(hotspotCentre) \/ passesLeft(hotspotCentre)
        THEN className.position \in { "left", "right" }
        ELSE /\ className.position = "bottom"
             /\ style.top = << "px", last.hr.top + last.hr.height + 15 >>
             /\ style.left = << "px", hotspotCentre >>

\* C15 witness: a desktop placement with tag bottom for a hotspot in the
\* first row and a tooltip 100 px high.
C15_Witness ==
    /\ last.op = "place"
    /\ ~mobileMode
    /\ last.hr.top < 15
    /\ last.tr.height = 100
    /\ className.position = "bottom"

\* C16: after a pointer-follow repositioning the tooltip's rectangle
\* [left, left + width] x [top, top + height] lies inside the viewport,
\* bottom edge included.
C16_FollowStaysInside ==
    last.op = "follow" =>
        /\ style.left[2] >= 0
        /\ style.left[2] + last.tr.width <= env.width
        /\ style.top[2] >= 0
        /\ style.top[2] + last.tr.height <= env.height

\* C18: a desktop placement is that of the four steps taken in order, each
\* overriding the one before: tag top, centred on the hotspot and 15 px above
\* it; tag bottom, 15 px below it, when the top offset would be under 15;
\* tag left, 15 px right of the hotspot and vertically centred, when the
\* centred tooltip would pass the viewport's width minus 15; tag right, 15 px
\* left of the hotspot and vertically centred, when the tooltip where the
\* steps before have put it would pass the left margin.  The tag is one of
\* the four and the pixel offsets are those of the tag.
C18_PlacementIsFourStep ==
    (last.op = "place" /\ ~mobileMode) =>
        LET hr  == last.hr
            tr  == last.tr
            mid == hr.top + hr.height \div 2 - tr.height \div 2
            x3  == IF passesRight(hotspotCentre) THEN hr.left + hr.width + 15
                                                 ELSE hotspotCentre
            tag == IF passesLeft(x3) THEN "right"
                   ELSE IF passesRight(hotspotCentre) THEN "left"
                   ELSE IF hr.top - tr.height - 15 < 15 THEN "bottom"
                   ELSE "top"
        IN  /\ className.position = tag
            /\ className.position \in { "top", "bottom", "left", "right" }
            /\ tag = "top" =>
                  /\ style.left = << "px", hotspotCentre >>
                  /\ style.top = << "px", hr.top - tr.height - 15 >>
            /\ tag = "bottom" =>
                  /\ style.left = << "px", hotspotCentre >>
                  /\ style.top = << "px", hr.top + hr.height + 15 >>
            /\ tag = "left" =>
                  /\ style.left = << "px", hr.left + hr.width + 15 >>
                  /\ style.top = << "px", mid >>
            /\ tag = "right" =>
                  /\ style.left = << "px", hr.left - 15 >>
                  /\ style.top = << "px", mid >>

\* C18 witness: a desktop placement with tag left, right of the hotspot, for
\* a tooltip so wide that centred on the hotspot it passes both margins.
C18_Witness ==
    /\ last.op = "place"
    /\ ~mobileMode
    /\ passesRight(hotspotCentre)
    /\ passesLeft(hotspotCentre)
    /\ className.position = "left"
    /\ style.left = << "px", last.hr.left + last.hr.width + 15 >>

\* C17: in mobile mode (touch-capable, or viewport narrower than 768 px) a
\* pointer-move over the hotspot of the visible tooltip leaves the tooltip's
\* bottom-sheet placement as it is.
C17_NoFollowInMobileMode ==
    (last.op = "mousemove" /\ mobileMode /\ last.wasVisible /\ last.prev = last.h) =>
        style = [ left |-> << "pct", 50 >>, top |-> << "auto", 0 >>,
                  bottom |-> << "px", 20 >>, transform |-> "translateX(-50%)" ]

\* C19: after a click on a hotspot, whether it shows or toggles off, no show
\* timer and no hide timer scheduled before the click is outstanding.
C19_ClickCancelsTimers ==
    last.op = "click" => timers = << >>

\* C20: when the pointer leaves a hotspot while the tooltip is visible and
\* the next thing to happen is the hide timer elapsing (no re-enter, no other
\* event in between), the tooltip is then not visible, no hotspot is
\* associated, and the hotspot that was associated has lost its active flag.
C20_LeaveThenHidden ==
    [][(/\ last.op = "mouseleave"
        /\ last.wasVisible
        /\ last.prev # None
        /\ last'.op = "hide-timer") =>
            /\ ~className'.visible
            /\ activeHotspot' = None
            /\ ~active'[last.prev]]_vars

\* C20 witness: a hide timer has elapsed on a visible tooltip with an
\* associated hotspot, and nothing is pending any more.
C20_Witness ==
    /\ last.op = "hide-timer"
    /\ last.wasVisible
    /\ last.prev # None
    /\ ~className.visible
    /\ timers = << >>
    /\ frames = 0

\* C21: right after a document click outside the tooltip and every hotspot
\* the tooltip is hidden with no hotspot associated; a document click inside
\* the tooltip changes neither visibility nor associated hotspot nor timers;
\* a click inside a hotspot is not hidden by the document's handler: when it
\* shows (registered hotspot, not the one of the visible tooltip) the tooltip
\* is visible afterwards.
C21_DocumentClick ==
    /\ [](last.op = "click-away" => (~className.visible /\ activeHotspot = None))
    /\ []((/\ last.op = "click"
           /\ ~(last.wasVisible /\ last.prev = last.h)
           /\ hasProject(datasetProject(last.h))) => className.visible)
    /\ [][last'.op = "click-tooltip" =>
            UNCHANGED << className, activeHotspot, active, timers >>]_vars

\* C21 witness: a click inside the visible tooltip, with a timer outstanding.
C21_Witness ==
    /\ last.op = "click-tooltip"
    /\ last.wasVisible
    /\ className.visible
    /\ activeHotspot # None
    /\ timers # << >>

\* C28: in every reachable state the tooltip has the visible mark exactly
\* when an active hotspot is recorded, and the recorded hotspot has the
\* active flag.
C28_VisibleIffAssociated ==
    /\ className.visible <=> activeHotspot # None
    /\ activeHotspot # None => active[activeHotspot]

\* C29: right after an immediate show (a touch-start, or a click on a hotspot
\* other than the one of the visible tooltip) no hide timer is outstanding:
\* a hide timer scheduled before the show cannot hide the tooltip shown.
C29_ImmediateShowCancelsHide ==
    (/\ last.op \in { "touchstart", "click" }
     /\ hasProject(datasetProject(last.h))
     /\ className.visible
     /\ activeHotspot = last.h) =>
        outstanding(timers, "hide") = { }

\* no ParallaxController exists or has existed, no parallax listener is
\* registered and no animation loop is scheduled
noParallax ==
    /\ ~parallax.controller
    /\ ~parallax.destroyed
    /\ parallax.listeners = { }
    /\ parallax.loops = 0

C27_ReducedMotionRespected ==
    /\ page.reducedMotion => noParallax
    /\ page.loaded => manager
    /\ (page.loaded /\ tooltip) => listeners = bindEvents(hotspots)

\* C27 witness: a page that could run the parallax has loaded with the
\* reduced-motion preference, and the tooltips are bound.
C27_Witness ==
    /\ page.loaded
    /\ page.reducedMotion
    /\ page.supports3d
    /\ page.scene
    /\ manager
    /\ tooltip
    /\ hotspots # { }
    /\ listening("hotspot", "click")

\* C30: once the parallax controller is destroyed no animation loop is
\* scheduled and the controller stays as destroy left it (not active, no
\* frame handle, no drag started); at all times at most one animation loop
\* is scheduled.
C30_DestroyStopsParallax ==
    /\ parallax.loops <= 1
    /\ parallax.destroyed =>
          /\ parallax.loops = 0
          /\ ~parallax.isActive
          /\ ~parallax.animationId


\* the endpoints that change the database, the stored files or the password
MutatingOps ==
    { "create", "update", "delete", "bulk-delete", "import", "upload", "delete-file",
      "change-password" }

\* C22: a request to a mutating endpoint (project create, update, delete, bulk
\* delete, import, file upload and delete, change-password) that arrives while
\* its session holds no admin is answered 401 and changes nothing on the
\* backend: not the projects table, not the uploads, not the admins table, not
\* projects.json, not the requests in flight.  As logout clears the session's
\* admin and only a successful login sets it, this covers every request
\* between a logout and the next successful login.
C22_AdminOnly ==
    [][ (last'.op \in MutatingOps /\ server.sessions[last'.s] = NoAdmin)
            => (last'.status = 401 /\ server' = server) ]_vars

\* C22's case: with projects and uploads stored, everybody has logged out and
\* a bulk delete has just been turned away
C22_Witness ==
    /\ \A s \in Sessions : server.sessions[s] = NoAdmin
    /\ server.db # { }
    /\ server.files # { }
    /\ last.op = "bulk-delete"
    /\ last.status = 401

\* the credentials of a login name a row of the admins table and the password
\* that row's hash was made from
rightCredentials(username, password) ==
    /\ username \in DOMAIN server.admins
    /\ password # Missing
    /\ server.admins[username] = bcryptHash(password)

\* C23: a session's admin field is set only by a login of that session whose
\* username is in the admins table and whose password matches the stored
\* hash; a login with missing credentials, an unknown username or a wrong
\* password is answered 400 or 401 and leaves every session as it was; and
\* GET /status answers authenticated exactly when the session holds an admin.
C23_LoginOnlyWithCredentials ==
    /\ [][ last'.op = "login" =>
             IF rightCredentials(last'.username, last'.password)
             THEN last'.status = 200 /\ server'.sessions[last'.s].username = last'.username
             ELSE last'.status \in { 400, 401 } /\ server' = server ]_vars
    /\ [][ \A s \in Sessions :
             (server'.sessions[s] # NoAdmin /\ server'.sessions[s] # server.sessions[s])
                => (last'.op = "login" /\ last'.s = s /\ last'.status = 200) ]_vars
    /\ [](last.op = "status" =>
             (last.authenticated <=> server.sessions[last.s] # NoAdmin))

\* C23's case: after the password was changed, a logged-in session tries the
\* old password, is answered 401 and keeps its admin
C23_Witness ==
    /\ last.op = "login"
    /\ last.status = 401
    /\ last.username = Admin
    /\ last.password = "admin123"
    /\ server.sessions[last.s] # NoAdmin


\* coordinates that are absent, or have each of x, y, w, h within [0, 1]
normalized(c) ==
    c.given => \A v \in { c.x, c.y, c.w, c.h } : 0 <= v /\ v <= 1

\* C24: every row of the projects table has normalized coordinates, and a
\* create or update whose body carries a coordinate outside [0, 1] is refused
\* (400, or 404 for an update of a project that does not exist) and leaves
\* the table as it was.
C24_CoordinatesNormalized ==
    /\ [](\A r \in server.db : normalized(JSONparse(r.coordinates)))
    /\ [][ (last'.op \in { "create", "update" } /\ ~normalized(last'.coordinates))
             => (last'.status \in { 400, 404 } /\ server'.db = server.db) ]_vars

\* no mutating project request is in flight
allCompleted == \A k \in Slots : server.inflight[k] = Idle

\* C25: whenever every mutating project request has completed, projects.json
\* is the projection of the rows the projects table holds, also when the
\* requests' database writes, getAll reads and file writes interleave.
C25_JsonFollowsDatabase ==
    allCompleted => server.json = projectsData(getAll(server.db))

==========================================================================
